---- MODULE Spec2Model ----
(***************************************************************************)
(* Model of the file renamer: unique_suggestion (the uniqueness resolver), *)
(* FileRenamerUI.select_files / process_files / regenerate_filename /      *)
(* rename_files, and the command line loop of main.py.                     *)
(*                                                                         *)
(* A base name is a sequence: a stem followed by the numbers appended by   *)
(* the "-N" suffixing, so <<"x", 1, 2>> is the string "x-1-2".  A path is  *)
(* a record of directory, base name and extension.                         *)
(***************************************************************************)
EXTENDS Naturals, Sequences, FiniteSets, TLC

VARIABLES
    mode,         \* "gui" or "cli"                       (args.cli)
    args_rename,  \* the --rename flag                    (args.rename)
    method,       \* "slugify" or "gemma"                 (args.method)
    slug,         \* content of a file -> slugify(content)
    disk,         \* absolute path -> content of the file at that path
    disk0,        \* the filesystem at program start
    files,        \* self.files / args.files
    file_data,    \* self.file_data : path -> suggested base name
    used_names,   \* used_names of the command line loop
    stdout,       \* the records printed by the command line loop
    idx,          \* position of the loop over the batch (1-based)
    phase,        \* "init", "processing", "ready", "renamed", "cli"
    rename_vars,  \* the paths whose checkbox is set when rename_files runs
    errors,       \* errors of rename_files / failures printed by the command line
    ops,          \* every os.rename call issued, in order
    regens,       \* number of regenerate_filename calls so far
    frame         \* per thread: the locals of its running unique_suggestion call

vars == <<mode, args_rename, method, slug, disk, disk0, files, file_data,
          used_names, stdout, idx, phase, rename_vars, errors, ops, regens, frame>>

(***************************************************************************)
(* Bounds                                                                  *)
(***************************************************************************)
MaxFiles == 3
MaxRegens == 1

\* attempts=3, the default of unique_suggestion that every caller uses
Attempts == 3

(***************************************************************************)
(* Names and paths                                                         *)
(***************************************************************************)
X == <<"x">>
Y == <<"y">>
X1 == <<"x", 1>>
FileName == <<"file">>

\* suggest_new_filename gives no usable name: None or ""
NoSuggestion == <<>>

Cwd == "/d1"

P(d, b, e) == [dir |-> d, base |-> b, ext |-> e]

\* The paths a user can select; "" is a path relative to the working directory
FilePaths == { P("", X, ".txt"), P("/d1", Y, ".txt"),
               P("/d1", X1, ".txt"), P("/d2", X, ".pdf") }

\* What the model based source can answer, and what slugify can answer
GemmaValues == {NoSuggestion, X}
SlugValues == {X, Y}

Ext(filepath) == filepath.ext
DirName(filepath) == filepath.dir
Join(dir_name, name, ext) == P(dir_name, name, ext)
AbsPath(path) == IF path.dir = "" THEN [path EXCEPT !.dir = Cwd] ELSE path

\* f"{base}-{counter}"
Suffixed(base, counter) == Append(base, counter)

Range(f) == {f[k] : k \in DOMAIN f}
Put(f, k, v) == [x \in DOMAIN f \cup {k} |-> IF x = k THEN v ELSE f[x]]
SeqRange(s) == {s[i] : i \in 1..Len(s)}
EmptyMap == [x \in {} |-> FileName]

(***************************************************************************)
(* unique_suggestion                                                       *)
(***************************************************************************)
\* result.get("suggested_filename") or "file"
NameOf(result) == IF result = NoSuggestion THEN FileName ELSE result

\* mutant: the file itself counts as a collision
ExistsWithoutSelfCheck(filepath, name, fs) ==
    AbsPath(Join(DirName(filepath), name, Ext(filepath))) \in DOMAIN fs

\* os.path.exists(candidate) and abspath(candidate) != abspath(filepath)
ExistsElsewhere(filepath, name, fs) ==
    LET candidate == Join(DirName(filepath), name, Ext(filepath))
    IN  AbsPath(candidate) \in DOMAIN fs /\ AbsPath(candidate) # AbsPath(filepath)

\* mutant: the claimed names are not consulted
CleanIgnoringClaimed(filepath, name, existing_names, fs) ==
    ~ExistsElsewhere(filepath, name, fs)

\* mutant: the filesystem is not consulted
CleanIgnoringDisk(filepath, name, existing_names, fs) ==
    name \notin existing_names

\* the test both loops apply to a name
Clean(filepath, name, existing_names, fs) ==
    name \notin existing_names /\ ~ExistsElsewhere(filepath, name, fs)

\* the while loop: new_name, then base-1, base-2, ...
RECURSIVE SuffixLoop(_, _, _, _, _, _)
SuffixLoop(filepath, existing_names, fs, base, new_name, counter) ==
    IF Clean(filepath, new_name, existing_names, fs)
    THEN new_name
    ELSE SuffixLoop(filepath, existing_names, fs, base,
                    Suffixed(base, counter), counter + 1)

\* the for loop over the attempts; resp[i] is the source's answer to call i
RECURSIVE AttemptLoop(_, _, _, _, _, _)
AttemptLoop(filepath, existing_names, fs, resp, i, last_name) ==
    IF i > Attempts
    THEN SuffixLoop(filepath, existing_names, fs, last_name, last_name, 1)
    ELSE LET name == NameOf(resp[i])
         IN  IF Clean(filepath, name, existing_names, fs)
             THEN name
             ELSE AttemptLoop(filepath, existing_names, fs, resp, i + 1, name)

UniqueSuggestion(filepath, existing_names, fs, resp) ==
    AttemptLoop(filepath, existing_names, fs, resp, 1, FileName)

(***************************************************************************)
(* The suggestion source                                                   *)
(***************************************************************************)
\* slugify(content) of the file now at filepath; an unreadable file gives "file"
SlugOf(filepath) ==
    IF AbsPath(filepath) \in DOMAIN disk /\ disk[AbsPath(filepath)] \in DOMAIN slug
    THEN slug[disk[AbsPath(filepath)]]
    ELSE FileName

\* the answers suggest_new_filename can give to one call
Suggest(filepath) ==
    IF method = "slugify" THEN {SlugOf(filepath)} ELSE GemmaValues

\* the answers to the calls of one unique_suggestion
Responses(filepath) == [1..Attempts -> Suggest(filepath)]

\* the names unique_suggestion can return, over the answers of the source
Suggestions(filepath, existing_names) ==
    {UniqueSuggestion(filepath, existing_names, disk, resp) : resp \in Responses(filepath)}

(***************************************************************************)
(* Construction                                                            *)
(***************************************************************************)
NoFrame == [pc |-> "idle", filepath |-> P("", FileName, ""), existing |-> {},
            attempt |-> 0, last_name |-> FileName, base |-> FileName,
            new_name |-> FileName, counter |-> 0, cands |-> <<>>,
            result |-> FileName]

Threads == {"worker", "ui"}

AbsPaths == {AbsPath(p) : p \in FilePaths}

InitCommon ==
    /\ \E present \in (SUBSET AbsPaths) \ {{}} :
          /\ disk = [p \in present |-> p]
          /\ disk0 = [p \in present |-> p]
    /\ method \in {"slugify", "gemma"}
    /\ slug = EmptyMap
    /\ files = <<>>
    /\ file_data = EmptyMap
    /\ used_names = {}
    /\ stdout = <<>>
    /\ idx = 1
    /\ phase = "init"
    /\ rename_vars = {}
    /\ errors = <<>>
    /\ ops = <<>>
    /\ regens = 0
    /\ frame = [t \in Threads |-> NoFrame]

Init ==
    /\ InitCommon
    /\ mode \in {"gui", "cli"}
    /\ args_rename \in (IF mode = "cli" THEN BOOLEAN ELSE {FALSE})

\* the batches that can be chosen: distinct existing files, in any order
Injective(s) == \A i, j \in 1..Len(s) : i # j => s[i] # s[j]
Batches ==
    {s \in UNION {[1..n -> {p \in FilePaths : AbsPath(p) \in DOMAIN disk}] : n \in 1..MaxFiles} :
        Injective(s)}

\* what slugify yields for the content of each file of the batch
Slugs(batch) ==
    IF method = "slugify"
    THEN [{AbsPath(p) : p \in SeqRange(batch)} -> SlugValues]
    ELSE {EmptyMap}

(***************************************************************************)
(* FileRenamerUI                                                           *)
(***************************************************************************)
SelectFiles ==
    /\ mode = "gui" /\ phase = "init"
    /\ \E filepaths \in Batches : \E s \in Slugs(filepaths) :
          /\ files' = filepaths
          /\ slug' = s
    /\ rename_vars' = {}
    /\ file_data' = EmptyMap
    /\ idx' = 1
    /\ phase' = "processing"
    /\ UNCHANGED <<mode, args_rename, method, disk, disk0, used_names, stdout,
                   errors, ops, regens, frame>>

\* one iteration of the loop of process_files
ProcessFile ==
    /\ phase = "processing" /\ idx <= Len(files)
    /\ LET filepath == files[idx]
           existing == Range(file_data)
       IN  \E suggested_name \in Suggestions(filepath, existing) :
              file_data' = Put(file_data, filepath, suggested_name)
    /\ idx' = idx + 1
    /\ UNCHANGED <<mode, args_rename, method, slug, disk, disk0, files, used_names,
                   stdout, phase, rename_vars, errors, ops, regens, frame>>

\* the loop is over: finalize enables the rename button
Finalize ==
    /\ phase = "processing" /\ idx > Len(files)
    /\ frame["worker"].pc = "idle"
    /\ phase' = "ready"
    /\ UNCHANGED <<mode, args_rename, method, slug, disk, disk0, files, file_data,
                   used_names, stdout, idx, rename_vars, errors, ops, regens, frame>>

\* mutant: the regenerated name replaces the whole table
RegenerateFilenameReset(filepath) ==
    /\ phase = "ready" /\ regens < MaxRegens
    /\ filepath \in SeqRange(files)
    /\ \E new_name \in Suggestions(filepath, {}) :
          file_data' = [x \in {filepath} |-> new_name]
    /\ regens' = regens + 1
    /\ UNCHANGED <<mode, args_rename, method, slug, disk, disk0, files, used_names,
                   stdout, idx, phase, rename_vars, errors, ops, frame>>

\* set(self.file_data.values()) - {self.file_data.get(filepath)}
RegenExisting(filepath) ==
    Range(file_data) \ (IF filepath \in DOMAIN file_data
                        THEN {file_data[filepath]} ELSE {})

RegenerateFilename(filepath) ==
    /\ phase = "ready" /\ regens < MaxRegens
    /\ filepath \in SeqRange(files)
    /\ \E new_name \in Suggestions(filepath, RegenExisting(filepath)) :
          file_data' = Put(file_data, filepath, new_name)
    /\ regens' = regens + 1
    /\ UNCHANGED <<mode, args_rename, method, slug, disk, disk0, files, used_names,
                   stdout, idx, phase, rename_vars, errors, ops, frame>>

(***************************************************************************)
(* os.rename and the rename loops                                          *)
(***************************************************************************)
\* How the operating system treats an os.rename call: the platform either
\* replaces an existing target silently ("posix") or refuses it ("nt"), and
\* any call can be refused for another reason (permission, cross-device, I/O
\* error), written "EACCES".
Platforms == {"posix", "nt"}

\* "ok", or the reason of the OSError that os.rename(src, dst) raises
OsRenameResult(fs, src, dst, os) ==
    IF AbsPath(src) \notin DOMAIN fs THEN "ENOENT"
    ELSE IF os = "EACCES" THEN "EACCES"
    ELSE IF AbsPath(dst) \in DOMAIN fs /\ AbsPath(dst) # AbsPath(src) /\ os = "nt"
         THEN "EEXIST"
    ELSE "ok"

\* the filesystem after a successful os.rename(src, dst)
Moved(fs, src, dst) ==
    [p \in (DOMAIN fs \ {AbsPath(src)}) \cup {AbsPath(dst)} |->
        IF p = AbsPath(dst) THEN fs[AbsPath(src)] ELSE fs[p]]

\* os.rename inside try/except: the filesystem, the error list and the call log after it
TryRename(st, src, dst, os) ==
    LET res == OsRenameResult(st.disk, src, dst, os)
        call == [src |-> src, dst |-> dst, ok |-> (res = "ok"),
                 free |-> (AbsPath(dst) \notin DOMAIN st.disk)]
    IN  [disk |-> IF res = "ok" THEN Moved(st.disk, src, dst) ELSE st.disk,
         errors |-> IF res = "ok" THEN st.errors
                    ELSE Append(st.errors, [path |-> src, reason |-> res]),
         ops |-> Append(st.ops, call)]

\* mutant: the target is built in the working directory
NewPathInCwd(filepath, new_base) == Join("", new_base, Ext(filepath))

\* os.path.join(dir_name, new_base + ext)
NewPath(filepath, new_base) == Join(DirName(filepath), new_base, Ext(filepath))

\* the body of the loop of rename_files for one path
RenameOne(st, filepath, checked, os) ==
    IF filepath \notin checked THEN st
    ELSE IF filepath \notin DOMAIN file_data THEN st
    ELSE IF AbsPath(NewPath(filepath, file_data[filepath])) = AbsPath(filepath) THEN st
    ELSE TryRename(st, filepath, NewPath(filepath, file_data[filepath]), os)

\* mutant: the first failure ends the loop
RECURSIVE RenameLoopAbort(_, _, _, _, _)
RenameLoopAbort(st, i, checked, denied, platform) ==
    IF i > Len(files) \/ Len(st.errors) > 0 THEN st
    ELSE RenameLoopAbort(RenameOne(st, files[i], checked,
                                   IF files[i] \in denied THEN "EACCES" ELSE platform),
                         i + 1, checked, denied, platform)

RECURSIVE RenameLoop(_, _, _, _, _)
RenameLoop(st, i, checked, denied, platform) ==
    IF i > Len(files) THEN st
    ELSE RenameLoop(RenameOne(st, files[i], checked,
                              IF files[i] \in denied THEN "EACCES" ELSE platform),
                    i + 1, checked, denied, platform)

\* what the loop of rename_files can leave behind, over the checkbox states and
\* over the behaviour of the operating system
RenameOutcomes ==
    {[checked |-> t[1],
      st |-> RenameLoop([disk |-> disk, errors |-> <<>>, ops |-> ops],
                        1, t[1], t[2], t[3])] :
        t \in {u \in (SUBSET SeqRange(files)) \X (SUBSET SeqRange(files)) \X Platforms :
                  u[2] \subseteq u[1]}}

RenameFiles ==
    /\ phase = "ready"
    /\ \E out \in RenameOutcomes :
          /\ rename_vars' = out.checked
          /\ disk' = out.st.disk
          /\ errors' = out.st.errors
          /\ ops' = out.st.ops
    /\ files' = <<>>
    /\ phase' = "renamed"
    /\ UNCHANGED <<mode, args_rename, method, slug, disk0, file_data, used_names,
                   stdout, idx, regens, frame>>

(***************************************************************************)
(* Command line mode                                                       *)
(***************************************************************************)
CliParse ==
    /\ mode = "cli" /\ phase = "init"
    /\ \E filepaths \in Batches : \E s \in Slugs(filepaths) :
          /\ files' = filepaths
          /\ slug' = s
    /\ used_names' = {}
    /\ idx' = 1
    /\ phase' = "cli"
    /\ UNCHANGED <<mode, args_rename, method, disk, disk0, file_data, stdout,
                   rename_vars, errors, ops, regens, frame>>

\* one iteration of the loop over args.files
CliStep ==
    /\ phase = "cli" /\ idx <= Len(files)
    /\ LET path == files[idx]
       IN  \E new_name \in Suggestions(path, used_names) :
           \E os \in Platforms \cup {"EACCES"} :
              LET st == IF args_rename
                        THEN TryRename([disk |-> disk, errors |-> errors, ops |-> ops],
                                       path, NewPath(path, new_name), os)
                        ELSE [disk |-> disk, errors |-> errors, ops |-> ops]
              IN  /\ used_names' = used_names \cup {new_name}
                  /\ stdout' = Append(stdout, [file |-> path, suggested |-> new_name])
                  /\ disk' = st.disk
                  /\ errors' = st.errors
                  /\ ops' = st.ops
    /\ idx' = idx + 1
    /\ UNCHANGED <<mode, args_rename, method, slug, disk0, files, file_data, phase,
                   rename_vars, regens, frame>>

(***************************************************************************)
(* The program run sequentially: every handler runs to its end             *)
(***************************************************************************)
Next ==
    \/ SelectFiles
    \/ ProcessFile
    \/ Finalize
    \/ \E filepath \in FilePaths : RegenerateFilename(filepath)
    \/ RenameFiles
    \/ CliParse
    \/ CliStep

Spec == Init /\ [][Next]_vars

(***************************************************************************)
(* The batch pass step by step: unique_suggestion runs one loop iteration  *)
(* at a time on the worker thread                                          *)
(***************************************************************************)
Worker == frame["worker"]

SetFrame(t, f) == [frame EXCEPT ![t] = f]

\* lines 103-104: the snapshot of the claimed names and the call
PF_Call ==
    /\ phase = "processing" /\ idx <= Len(files)
    /\ Worker.pc = "idle"
    /\ frame' = SetFrame("worker",
                   [NoFrame EXCEPT !.pc = "for", !.filepath = files[idx],
                                   !.existing = Range(file_data)])
    /\ UNCHANGED <<mode, args_rename, method, slug, disk, disk0, files, file_data,
                   used_names, stdout, idx, phase, rename_vars, errors, ops, regens>>

\* mutant: last_name keeps the first candidate
AttemptStepKeepFirst(f, name) ==
    IF Clean(f.filepath, name, f.existing, disk)
    THEN [f EXCEPT !.pc = "return", !.result = name, !.cands = Append(@, name)]
    ELSE [f EXCEPT !.attempt = @ + 1, !.cands = Append(@, name),
                   !.last_name = IF f.attempt = 0 THEN name ELSE @]

\* the frame after one iteration of the for loop in which the source gave name;
\* cands records the candidates of the call
AttemptStep(f, name) ==
    IF Clean(f.filepath, name, f.existing, disk)
    THEN [f EXCEPT !.pc = "return", !.result = name, !.cands = Append(@, name)]
    ELSE [f EXCEPT !.attempt = @ + 1, !.cands = Append(@, name), !.last_name = name]

\* one iteration of the for loop: ask the source, return the name if it is clean
US_Attempt ==
    /\ Worker.pc = "for" /\ Worker.attempt < Attempts
    /\ \E result \in Suggest(Worker.filepath) :
          frame' = SetFrame("worker", AttemptStep(Worker, NameOf(result)))
    /\ UNCHANGED <<mode, args_rename, method, slug, disk, disk0, files, file_data,
                   used_names, stdout, idx, phase, rename_vars, errors, ops, regens>>

\* the attempts are used up: base = last_name, counter = 1, new_name = base
US_Exhausted ==
    /\ Worker.pc = "for" /\ Worker.attempt >= Attempts
    /\ frame' = SetFrame("worker",
                   [Worker EXCEPT !.pc = "while", !.base = Worker.last_name,
                                  !.counter = 1, !.new_name = Worker.last_name])
    /\ UNCHANGED <<mode, args_rename, method, slug, disk, disk0, files, file_data,
                   used_names, stdout, idx, phase, rename_vars, errors, ops, regens>>

\* mutant: the counter is not advanced
WhileStepStuck(f) ==
    IF Clean(f.filepath, f.new_name, f.existing, disk)
    THEN [f EXCEPT !.pc = "return", !.result = f.new_name]
    ELSE [f EXCEPT !.new_name = Suffixed(f.base, f.counter)]

\* the frame after one iteration of the while loop
WhileStep(f) ==
    IF Clean(f.filepath, f.new_name, f.existing, disk)
    THEN [f EXCEPT !.pc = "return", !.result = f.new_name]
    ELSE [f EXCEPT !.new_name = Suffixed(f.base, f.counter), !.counter = @ + 1]

US_While ==
    /\ Worker.pc = "while"
    /\ frame' = SetFrame("worker", WhileStep(Worker))
    /\ UNCHANGED <<mode, args_rename, method, slug, disk, disk0, files, file_data,
                   used_names, stdout, idx, phase, rename_vars, errors, ops, regens>>

\* line 105: the name is stored and the loop moves on
PF_Store ==
    /\ Worker.pc = "return"
    /\ file_data' = Put(file_data, Worker.filepath, Worker.result)
    /\ idx' = idx + 1
    /\ frame' = SetFrame("worker", NoFrame)
    /\ UNCHANGED <<mode, args_rename, method, slug, disk, disk0, files, used_names,
                   stdout, phase, rename_vars, errors, ops, regens>>

InitGui == InitCommon /\ mode = "gui" /\ args_rename = FALSE

NextPass ==
    \/ SelectFiles
    \/ PF_Call
    \/ US_Attempt
    \/ US_Exhausted
    \/ US_While
    \/ PF_Store
    \/ Finalize

\* the steps of the worker thread and the finalize callback it schedules
WorkerStep ==
    \/ PF_Call
    \/ US_Attempt
    \/ US_Exhausted
    \/ US_While
    \/ PF_Store
    \/ Finalize

\* the worker thread is never starved: a started pass keeps taking steps
PassSpec == InitGui /\ [][NextPass]_vars /\ WF_vars(WorkerStep)

(***************************************************************************)
(* The batch pass on the worker thread interleaved with regenerate_filename*)
(* on the interface thread.  A call of unique_suggestion reads only its    *)
(* arguments and the filesystem, so it is one step of its thread.          *)
(***************************************************************************)
Ui == frame["ui"]

\* the whole unique_suggestion call of thread t
US_Run(t) ==
    /\ frame[t].pc = "for"
    /\ \E name \in Suggestions(frame[t].filepath, frame[t].existing) :
          frame' = SetFrame(t, [frame[t] EXCEPT !.pc = "return", !.result = name])
    /\ UNCHANGED <<mode, args_rename, method, slug, disk, disk0, files, file_data,
                   used_names, stdout, idx, phase, rename_vars, errors, ops, regens>>

\* line 154: the button of a listed row is pressed; the claimed names are read
RG_Call(filepath) ==
    /\ phase \in {"processing", "ready"} /\ regens < MaxRegens
    /\ filepath \in DOMAIN file_data
    /\ Ui.pc = "idle"
    /\ frame' = SetFrame("ui",
                   [NoFrame EXCEPT !.pc = "for", !.filepath = filepath,
                                   !.existing = RegenExisting(filepath)])
    /\ UNCHANGED <<mode, args_rename, method, slug, disk, disk0, files, file_data,
                   used_names, stdout, idx, phase, rename_vars, errors, ops, regens>>

\* line 156: the new name is stored
RG_Store ==
    /\ Ui.pc = "return"
    /\ file_data' = Put(file_data, Ui.filepath, Ui.result)
    /\ regens' = regens + 1
    /\ frame' = SetFrame("ui", NoFrame)
    /\ UNCHANGED <<mode, args_rename, method, slug, disk, disk0, files, used_names,
                   stdout, idx, phase, rename_vars, errors, ops>>

NextConc ==
    \/ SelectFiles
    \/ PF_Call
    \/ US_Run("worker")
    \/ PF_Store
    \/ Finalize
    \/ \E filepath \in FilePaths : RG_Call(filepath)
    \/ US_Run("ui")
    \/ RG_Store

ConcSpec == InitGui /\ [][NextConc]_vars

(***************************************************************************)
(* Properties                                                              *)
(***************************************************************************)
\* the name each file of the batch has been given so far
Assigned ==
    IF mode = "gui" THEN file_data
    ELSE [p \in {stdout[i].file : i \in 1..Len(stdout)} |->
             (CHOOSE r \in SeqRange(stdout) : r.file = p).suggested]

\* the sequential batch pass is over and nothing has been renamed
PassFinished ==
    \/ mode = "gui" /\ phase = "ready"
    \/ mode = "cli" /\ ~args_rename /\ phase = "cli" /\ idx > Len(files)

\* directory/name+extension, as an absolute path
TargetOf(f, name) == AbsPath([dir |-> f.dir, base |-> name, ext |-> f.ext])

NoTwoShareAName(assignment) ==
    \A f, g \in DOMAIN assignment : f # g => assignment[f] # assignment[g]

\* C1. Uniqueness: once the sequential batch pass has finished, and after any
\* regenerate_filename calls, every file of the batch has a name, no two files
\* have the same base name, and directory/name+extension of every file either
\* does not exist or is the file itself.
C1_Uniqueness ==
    PassFinished =>
        /\ DOMAIN Assigned = SeqRange(files)
        /\ NoTwoShareAName(Assigned)
        /\ \A f \in DOMAIN Assigned :
              \/ TargetOf(f, Assigned[f]) \notin DOMAIN disk
              \/ TargetOf(f, Assigned[f]) = AbsPath(f)

\* a three file batch after a regeneration, where a collision forced a suffix
C1_Witness ==
    /\ mode = "gui" /\ phase = "ready" /\ regens >= 1
    /\ Len(files) = 3
    /\ \E f \in DOMAIN file_data : Len(file_data[f]) > 1

\* the file's own current base name
OwnName(f) == f.base

\* C2 as claimed. Self-collision exemption in any batch state: a call in which the
\* source returned the file's own base name returns exactly that name.
C2_SelfNameAlwaysKept ==
    (Worker.pc = "return" /\ OwnName(Worker.filepath) \in SeqRange(Worker.cands))
        => Worker.result = OwnName(Worker.filepath)

\* C2 amended. Self-collision exemption: a call in which the source returned the
\* file's own base name, that name not being claimed by another file of the
\* batch, returns exactly that name, without a suffix.
C2_SelfNameKeptUnlessClaimed ==
    (/\ Worker.pc = "return"
     /\ OwnName(Worker.filepath) \in SeqRange(Worker.cands)
     /\ OwnName(Worker.filepath) \notin Worker.existing)
        => Worker.result = OwnName(Worker.filepath)

\* the source gave the file its own name while other names were already claimed
C2_Witness ==
    /\ Worker.pc = "return"
    /\ OwnName(Worker.filepath) \in SeqRange(Worker.cands)
    /\ OwnName(Worker.filepath) \notin Worker.existing
    /\ Worker.existing # {}
    /\ AbsPath(Worker.filepath) \in DOMAIN disk

\* C3. Fallback termination: every call of unique_suggestion returns, whatever
\* the source answers and so also when it answers the same candidate every
\* time; the batch pass reaches its end; and the returned name is neither
\* claimed nor occupied on disk by a different file.
C3_FallbackTerminates ==
    /\ (Worker.pc = "for") ~> (Worker.pc = "return")
    /\ (phase = "processing") ~> (phase = "ready")
    /\ [](Worker.pc = "return" =>
            /\ Worker.result \notin Worker.existing
            /\ \/ TargetOf(Worker.filepath, Worker.result) \notin DOMAIN disk
               \/ TargetOf(Worker.filepath, Worker.result) = AbsPath(Worker.filepath))

\* the source gave the same candidate at every attempt and the suffix loop ran
\* past its first suffix before the call returned
C3_Witness ==
    /\ Worker.pc = "return"
    /\ Len(Worker.cands) = Attempts
    /\ \A i \in 1..Attempts : Worker.cands[i] = Worker.cands[1]
    /\ Worker.counter > 2
    /\ idx = Len(files)

\* the test of unique_suggestion, written out on the frame of the call
Disqualified(f, name) ==
    \/ name \in f.existing
    \/ /\ TargetOf(f.filepath, name) \in DOMAIN disk
       /\ TargetOf(f.filepath, name) # AbsPath(f.filepath)

\* no suffix has to be tried more often than there are names to collide with
MaxSuffix(f) == Cardinality(f.existing) + Cardinality(DOMAIN disk) + 1

\* the source gives x, x, y to a batch of three files, and no name tried for a
\* file (x; x and x-1; y) is occupied on disk by a different file
XXYBatch ==
    /\ method = "slugify" /\ phase = "ready" /\ Len(files) = 3
    /\ slug[AbsPath(files[1])] = X
    /\ slug[AbsPath(files[2])] = X
    /\ slug[AbsPath(files[3])] = Y
    /\ \A t \in {<<1, X>>, <<2, X>>, <<2, X1>>, <<3, Y>>} :
          \/ TargetOf(files[t[1]], t[2]) \notin DOMAIN disk
          \/ TargetOf(files[t[1]], t[2]) = AbsPath(files[t[1]])

\* C9. Deterministic suffixing: when every one of the Attempts candidates of a
\* call was disqualified, the call returns lastName-k, lastName being the
\* candidate of the last attempt and k the smallest integer >= 1 for which
\* lastName-k is neither claimed nor occupied on disk by a different file; a
\* batch whose source gives x, x, y is assigned x, x-1, y in input order.
C9_DeterministicSuffix ==
    /\ (/\ Worker.pc = "return"
        /\ Len(Worker.cands) = Attempts
        /\ \A i \in 1..Attempts : Disqualified(Worker, Worker.cands[i]))
          => \E k \in 1..MaxSuffix(Worker) :
                /\ Worker.result = Append(Worker.cands[Attempts], k)
                /\ ~Disqualified(Worker, Worker.result)
                /\ \A j \in 1..(k - 1) :
                      Disqualified(Worker, Append(Worker.cands[Attempts], j))
    /\ XXYBatch => /\ file_data[files[1]] = X
                   /\ file_data[files[2]] = X1
                   /\ file_data[files[3]] = Y

\* a call whose last candidate differs from its first had to go to the second
\* suffix of the last one
C9_Witness ==
    /\ Worker.pc = "return"
    /\ Len(Worker.cands) = Attempts
    /\ \A i \in 1..Attempts : Disqualified(Worker, Worker.cands[i])
    /\ Worker.cands[1] # Worker.cands[Attempts]
    /\ Worker.result = Append(Worker.cands[Attempts], 2)

\* the x, x, y batch of C9 has been resolved
C9_ExampleReached == XXYBatch

\* C4. Regeneration independence: regenerate_filename(A) changes the stored
\* name of no file other than A, whatever the source answers.
C4_RegenerationIndependence ==
    [][\A a \in FilePaths :
          RegenerateFilename(a) =>
             \A b \in DOMAIN file_data \ {a} :
                b \in DOMAIN file_data' /\ file_data'[b] = file_data[b]]_vars

\* a regeneration has run in a batch of several files
C4_Witness ==
    /\ phase = "ready" /\ regens >= 1
    /\ Len(files) >= 2
    /\ DOMAIN file_data = SeqRange(files)

\* C5 as claimed. No-op skip: no os.rename call is issued, and so no failure is
\* reported, for a file whose assigned base name is its current base name.
C5_NoOpSkip ==
    \A i \in 1..Len(ops) : ops[i].dst.base # OwnName(ops[i].src)

\* the paths rename_files reports as failed, in the order of the reports
FailedPaths(errs) == [i \in 1..Len(errs) |-> errs[i].path]

\* C7 as claimed. Rename effect: after rename_files, every selected file with an
\* assigned name whose target was free is at directory/name+extension and no
\* longer at its original path.
C7_RenameEffect ==
    phase = "renamed" =>
       \A f \in rename_vars :
          (/\ f \in DOMAIN file_data
           /\ file_data[f] # <<>>
           /\ TargetOf(f, file_data[f]) \notin DOMAIN disk0)
             => /\ TargetOf(f, file_data[f]) \in DOMAIN disk
                /\ disk[TargetOf(f, file_data[f])] = disk0[AbsPath(f)]
                /\ AbsPath(f) \notin DOMAIN disk

\* C7 amended. Rename effect: after rename_files, every selected file with an
\* assigned name whose target was free, and whose rename the operating system
\* did not refuse, is at directory/name+extension, in its own directory and with
\* its own extension, and no longer at its original path; the name used is the
\* one stored last, so a regenerated one after a regeneration.
C7_RenameEffectUnlessRefused ==
    phase = "renamed" =>
       \A f \in rename_vars :
          (/\ f \in DOMAIN file_data
           /\ file_data[f] # <<>>
           /\ TargetOf(f, file_data[f]) \notin DOMAIN disk0
           /\ f \notin SeqRange(FailedPaths(errors)))
             => /\ TargetOf(f, file_data[f]) \in DOMAIN disk
                /\ disk[TargetOf(f, file_data[f])] = disk0[AbsPath(f)]
                /\ AbsPath(f) \notin DOMAIN disk

\* after a regeneration, a selected file outside the working directory has been
\* moved to its free target while another selected file was refused
C7_Witness ==
    /\ phase = "renamed" /\ regens >= 1
    /\ \E f \in rename_vars :
          /\ f.dir # "" /\ f.dir # Cwd
          /\ TargetOf(f, file_data[f]) \notin DOMAIN disk0
          /\ f \notin SeqRange(FailedPaths(errors))
          /\ TargetOf(f, file_data[f]) \in DOMAIN disk
    /\ errors # <<>>

\* C10. No overwrite: every os.rename the program issues, from rename_files or
\* from the command line loop, has a target that at that moment does not exist
\* or is the source itself; the files on disk stay the same files, none replaced
\* and none added.
C10_NoOverwrite ==
    /\ \A i \in 1..Len(ops) :
          ops[i].free \/ AbsPath(ops[i].dst) = AbsPath(ops[i].src)
    /\ Cardinality(DOMAIN disk) = Cardinality(DOMAIN disk0)
    /\ Range(disk) = Range(disk0)

\* three renames have been carried out
C10_Witness ==
    /\ Len(ops) = 3
    /\ \A i \in 1..3 : ops[i].ok /\ AbsPath(ops[i].dst) # AbsPath(ops[i].src)

\* rename_files has to call os.rename for f: its box is checked, it has a name,
\* and the target is not the file itself
ToRename(f, checked) ==
    /\ f \in checked
    /\ f \in DOMAIN file_data
    /\ file_data[f] # <<>>
    /\ TargetOf(f, file_data[f]) # AbsPath(f)

\* C6. Partial-failure isolation: rename_files runs to its end whatever fails;
\* it calls os.rename once for every selected file that needs it, in input
\* order, also after a failure; it reports exactly the failed calls, each with
\* its path and a reason; and in a batch of 3 where only the 2nd call fails,
\* files 1 and 3 are renamed and file 2 is the only one reported.
C6_PartialFailureIsolation ==
    [][(phase = "ready" /\ phase' = "renamed") =>
          LET IsDue(f) == ToRename(f, rename_vars')
              due == SelectSeq(files, IsDue)
              calls == SubSeq(ops', Len(ops) + 1, Len(ops'))
              Refused(c) == ~c.ok
              refused == SelectSeq(calls, Refused)
          IN  /\ [i \in 1..Len(calls) |-> calls[i].src] = due
              /\ FailedPaths(errors') = [i \in 1..Len(refused) |-> refused[i].src]
              /\ \A i \in 1..Len(errors') :
                    errors'[i].reason \in {"EACCES", "EEXIST", "ENOENT"}
              /\ (/\ Len(files) = 3 /\ Len(due) = 3
                  /\ FailedPaths(errors') = <<files[2]>>)
                    => /\ \A i \in {1, 3} :
                            /\ AbsPath(files[i]) \notin DOMAIN disk'
                            /\ TargetOf(files[i], file_data[files[i]]) \in DOMAIN disk'
                            /\ disk'[TargetOf(files[i], file_data[files[i]])]
                                  = disk[AbsPath(files[i])]
                       /\ AbsPath(files[2]) \in DOMAIN disk'
                       /\ disk'[AbsPath(files[2])] = disk[AbsPath(files[2])]]_vars

\* three files were selected, the second rename was refused, the other two done
C6_Witness ==
    /\ phase = "renamed"
    /\ Len(ops) = 3 /\ Cardinality(rename_vars) = 3
    /\ ops[1].ok /\ ~ops[2].ok /\ ops[3].ok
    /\ Len(errors) = 1 /\ errors[1].path = ops[2].src

\* C8 as claimed. Uniqueness under interleaving: while the batch pass on the
\* worker thread interleaves with regenerate_filename on the interface thread,
\* no two files of the batch are assigned the same base name.
C8_UniqueUnderInterleaving == NoTwoShareAName(file_data)

====
